---- MODULE Spec2Model ----
(***************************************************************************)
(* Model of markov_gen.py: the MarkovChain class (train, _choose_next,     *)
(* generate, save, load).                                                  *)
(*                                                                         *)
(* A token is a Python str, modelled as a sequence of one-character        *)
(* strings so that "||".join and str.split("||") are computed on           *)
(* characters.  A dict is modelled as the sequence of its items in         *)
(* insertion order (the iteration order of a Python dict).                 *)
(*                                                                         *)
(* Specifications:                                                         *)
(*   Spec        one MarkovChain: train calls and generate calls           *)
(*   SpecGen     the same operations, with longer generate calls           *)
(*   SpecCodec   train, save, edits of the saved file, load                *)
(*   SpecChoose  _choose_next on every table within the bounds             *)
(* The variables a specification does not use keep their initial values.   *)
(***************************************************************************)
EXTENDS Integers, Sequences, FiniteSets, TLC

\* ---------------------------------------------------------------- bounds
\* every specification
MaxOrder == 2
MaxLen == 2
\* Spec: many train calls, short generate calls without start tokens
MaxTrain == 2
MaxWordsT == 1
\* SpecGen: few train calls, long generate calls
MaxTrainG == 1
MaxWords == 2
MaxStart == 2
\* SpecChoose: the tables _choose_next draws from
MaxCount == 2
\* SpecCodec: train calls before a save, edits of the saved file
MaxTrainC == 1
MaxTamper == 1

\* ------------------------------------------------------------ vocabulary
START == <<"<", "S", "T", "A", "R", "T", ">">>
STOP == <<"<", "S", "T", "O", "P", ">">>
SEP == <<"|", "|">>
SPACE == <<" ">>

\* Tokens the callers feed in; tokenize() splits on whitespace only, so
\* punctuation such as "|" stays attached to a word.
Tokens == { <<"a", "|">>, <<"b">> }

SeqsUpTo(S, n) == UNION { [1..k -> S] : k \in 0..n }

VARIABLES
    order,      \* self.order
    model,      \* self.model: items <<[ctx, nexts]>>, nexts items <<[w, c]>>
    hist,       \* history: the token lists passed to train so far
    pc,         \* "idle", or the position inside generate / load
    context,    \* generate: local context
    out,        \* generate: local out
    start,      \* generate: argument start (None is read as [])
    max_words,  \* generate: argument max_words
    i,          \* generate: iterations of the for loop completed
    draws,      \* history: the values _choose_next returned in this call
    pick,       \* history: the random value of the last sampling step
    prev,       \* history: the context the last sampling step looked up
    result,     \* the text generate returns, until the caller has taken it
    loaded,     \* what the last load call produced: a MarkovChain or an error
    file,       \* the JSON document at the model path, or NoFile
    tampers     \* history: number of external edits of the file

vars == <<order, model, hist, pc, context, out, start, max_words, i,
          draws, pick, prev, result, loaded, file, tampers>>

genVars == <<context, out, start, max_words, i, draws, pick, prev>>

\* ------------------------------------------------------- dict operations
RECURSIVE IndexOfCtx(_, _, _)
IndexOfCtx(m, ctx, k) ==
    IF k > Len(m) THEN 0
    ELSE IF m[k].ctx = ctx THEN k
    ELSE IndexOfCtx(m, ctx, k + 1)

RECURSIVE IndexOfWord(_, _, _)
IndexOfWord(nexts, w, k) ==
    IF k > Len(nexts) THEN 0
    ELSE IF nexts[k].w = w THEN k
    ELSE IndexOfWord(nexts, w, k + 1)

\* self.model.get(context): None and {} are both falsy, <<>> stands for both
ModelGet(m, ctx) ==
    LET k == IndexOfCtx(m, ctx, 1) IN
    IF k = 0 THEN <<>> ELSE m[k].nexts

\* faulty variant: nexts[w] = 1
IncrWordAssign(nexts, w) ==
    LET k == IndexOfWord(nexts, w, 1) IN
    IF k = 0 THEN Append(nexts, [w |-> w, c |-> 1])
    ELSE [nexts EXCEPT ![k].c = 1]

\* nexts[w] += 1 on a defaultdict(int)
IncrWord(nexts, w) ==
    LET k == IndexOfWord(nexts, w, 1) IN
    IF k = 0 THEN Append(nexts, [w |-> w, c |-> 1])
    ELSE [nexts EXCEPT ![k].c = @ + 1]

\* self.model[context][next_word] += 1 on a defaultdict of defaultdict(int)
Incr(m, ctx, w) ==
    LET k == IndexOfCtx(m, ctx, 1) IN
    IF k = 0 THEN Append(m, [ctx |-> ctx, nexts |-> IncrWord(<<>>, w)])
    ELSE [m EXCEPT ![k].nexts = IncrWord(@, w)]

\* ------------------------------------------------------------------ train
Padded(ord, tokens) == [k \in 1..ord |-> START] \o tokens \o <<STOP>>

\* padded[i : i + order], i counted from 0 as in the source
Window(padded, ord, pos) == SubSeq(padded, pos + 1, pos + ord)

\* faulty variant: range(len(padded) - self.order - 1)
TrainRangeShort(padded, ord) == Len(padded) - ord - 1

\* range(len(padded) - self.order)
TrainRange(padded, ord) == Len(padded) - ord

RECURSIVE TrainLoop(_, _, _, _, _)
TrainLoop(m, padded, ord, pos, n) ==
    IF pos >= n THEN m
    ELSE TrainLoop(Incr(m, Window(padded, ord, pos), padded[pos + ord + 1]),
                   padded, ord, pos + 1, n)

\* faulty variant: if len(tokens) <= self.order
TooShortLeq(tokens, ord) == Len(tokens) <= ord

\* if len(tokens) < self.order: return
TooShort(tokens, ord) == Len(tokens) < ord

TrainModel(m, ord, tokens) ==
    IF TooShort(tokens, ord) THEN m
    ELSE LET padded == Padded(ord, tokens) IN
         TrainLoop(m, padded, ord, 0, TrainRange(padded, ord))

Train(tokens, cap) ==
    /\ pc = "idle"
    /\ Len(hist) < cap
    /\ model' = TrainModel(model, order, tokens)
    /\ hist' = Append(hist, tokens)
    /\ UNCHANGED <<order, pc, genVars, result, loaded, file, tampers>>

\* ----------------------------------------------------------- _choose_next
RECURSIVE Keys(_)
Keys(nexts) ==
    IF nexts = <<>> THEN <<>> ELSE <<Head(nexts).w>> \o Keys(Tail(nexts))

\* for nxts in self.model.values(): all_choices.extend(nxts.keys())
RECURSIVE AllChoices(_)
AllChoices(m) ==
    IF m = <<>> THEN <<>> ELSE Keys(Head(m).nexts) \o AllChoices(Tail(m))

\* sum(counts)
RECURSIVE Total(_)
Total(nexts) ==
    IF nexts = <<>> THEN 0 ELSE Head(nexts).c + Total(Tail(nexts))

\* faulty variant: if r <= upto
HitLeq(r, upto) == r <= upto

\* if r < upto
Hit(r, upto) == r < upto

\* the cumulative loop of _choose_next, falling through to words[-1]
RECURSIVE WeightedLoop(_, _, _, _)
WeightedLoop(nexts, r, k, upto) ==
    IF k > Len(nexts) THEN nexts[Len(nexts)].w
    ELSE IF Hit(r, upto + nexts[k].c) THEN nexts[k].w
    ELSE WeightedLoop(nexts, r, k + 1, upto + nexts[k].c)

ChooseWeighted(nexts, r) == WeightedLoop(nexts, r, 1, 0)

\* faulty variant: return "<STOP>" for every unseen context
FallbackAlwaysStop(m, r) == STOP

\* random.choice(all_choices) if all_choices else "<STOP>"
Fallback(m, r) ==
    LET all_choices == AllChoices(m) IN
    IF all_choices # <<>> THEN all_choices[r + 1] ELSE STOP

\* the values the random source can return for this call of _choose_next:
\* randrange(total) for a known context, an index into all_choices for the
\* fallback (0 where nothing is drawn).  randrange raises for total <= 0,
\* which no trained model has.
PickRange(m, ctx) ==
    LET choices == ModelGet(m, ctx) IN
    IF choices = <<>>
    THEN IF AllChoices(m) = <<>> THEN {0} ELSE 0..(Len(AllChoices(m)) - 1)
    ELSE 0..(Total(choices) - 1)

ChooseNext(m, ctx, r) ==
    LET choices == ModelGet(m, ctx) IN
    IF choices = <<>> THEN Fallback(m, r) ELSE ChooseWeighted(choices, r)

\* the model after self.model.get(context): dict.get inserts nothing
ModelAfterGet(m, ctx) == m

\* --------------------------------------------------------------- generate
\* tokens[-self.order:]
LastN(s, n) == IF Len(s) <= n THEN s ELSE SubSeq(s, Len(s) - n + 1, Len(s))

Max(a, b) == IF a >= b THEN a ELSE b

\* build initial context
InitialContext(ord, tokens) ==
    IF Len(tokens) < ord
    THEN [k \in 1..Max(0, ord - Len(tokens)) |-> START] \o LastN(tokens, ord)
    ELSE LastN(tokens, ord)

\* faulty variant: tuple(list(context) + [next_word])
AdvanceNoDrop(ord, ctx, next_word) == Append(ctx, next_word)

\* tuple(list(context[1:]) + [next_word]) if self.order > 1 else (next_word,)
Advance(ord, ctx, next_word) ==
    IF ord > 1 THEN Append(Tail(ctx), next_word) ELSE <<next_word>>

\* faulty variant: range(max_words + 1)
LoopGuardLeq(k, n) == k <= n

\* for _ in range(max_words): another iteration follows k completed ones
LoopGuard(k, n) == k < n

\* faulty variant: the comparison with STOP never succeeds
IsStopNever(next_word) == FALSE

\* if next_word == STOP: break
IsStop(next_word) == next_word = STOP

\* sep.join(parts)
RECURSIVE StrJoin(_, _)
StrJoin(sep, parts) ==
    IF parts = <<>> THEN <<>>
    ELSE IF Len(parts) = 1 THEN parts[1]
    ELSE parts[1] \o sep \o StrJoin(sep, Tail(parts))

NoFile == [exists |-> FALSE]
NoLoad == [status |-> "none"]
\* no text is held: the text of a call is a sequence of characters
NoText == [none |-> TRUE]

GenStart(mw, st) ==
    /\ pc = "idle"
    /\ pc' = "loop"
    /\ max_words' = mw
    /\ start' = st
    /\ context' = InitialContext(order, st)
    /\ out' = st
    /\ i' = 0
    /\ draws' = <<>>
    /\ pick' = 0
    /\ prev' = <<>>
    /\ UNCHANGED <<order, model, hist, result, loaded, file, tampers>>

GenStep ==
    /\ pc = "loop"
    /\ LoopGuard(i, max_words)
    /\ \E r \in PickRange(model, context) :
         LET next_word == ChooseNext(model, context, r) IN
         /\ model' = ModelAfterGet(model, context)
         /\ draws' = Append(draws, next_word)
         /\ pick' = r
         /\ prev' = context
         /\ IF IsStop(next_word)
            THEN /\ pc' = "return"
                 /\ result' = StrJoin(SPACE, out)
                 /\ UNCHANGED <<out, context, i>>
            ELSE /\ pc' = "loop"
                 /\ out' = Append(out, next_word)
                 /\ context' = Advance(order, context, next_word)
                 /\ i' = i + 1
                 /\ UNCHANGED result
    /\ UNCHANGED <<order, hist, start, max_words, loaded, file, tampers>>

\* the for loop runs out; return " ".join(out)
GenExhaust ==
    /\ pc = "loop"
    /\ ~LoopGuard(i, max_words)
    /\ pc' = "return"
    /\ result' = StrJoin(SPACE, out)
    /\ UNCHANGED <<order, model, hist, genVars, loaded, file, tampers>>

\* the caller takes the returned text; the locals of the call are gone
GenReturn ==
    /\ pc = "return"
    /\ pc' = "idle"
    /\ result' = NoText
    /\ context' = <<>>
    /\ out' = <<>>
    /\ start' = <<>>
    /\ max_words' = 0
    /\ i' = 0
    /\ draws' = <<>>
    /\ pick' = 0
    /\ prev' = <<>>
    /\ UNCHANGED <<order, model, hist, loaded, file, tampers>>

Init ==
    /\ order \in 1..MaxOrder
    /\ model = <<>>
    /\ hist = <<>>
    /\ pc = "idle"
    /\ context = <<>>
    /\ out = <<>>
    /\ start = <<>>
    /\ max_words = 0
    /\ i = 0
    /\ draws = <<>>
    /\ pick = 0
    /\ prev = <<>>
    /\ result = NoText
    /\ loaded = NoLoad
    /\ file = NoFile
    /\ tampers = 0

TokenLists == SeqsUpTo(Tokens, MaxLen)

Next ==
    \/ \E tokens \in TokenLists : Train(tokens, MaxTrain)
    \/ \E mw \in 0..MaxWordsT : GenStart(mw, <<>>)
    \/ GenStep
    \/ GenExhaust
    \/ GenReturn

Spec == Init /\ [][Next]_vars

NextGen ==
    \/ \E tokens \in TokenLists : Train(tokens, MaxTrainG)
    \/ \E mw \in 0..MaxWords, st \in SeqsUpTo(Tokens, MaxStart) : GenStart(mw, st)
    \/ GenStep
    \/ GenExhaust
    \/ GenReturn

SpecGen == Init /\ [][NextGen]_vars

\* ------------------------------------------------------------ save / load
\* The file holds a JSON document.  json.dump followed by json.load gives
\* back a document of string keys and integer values as it was, so the file
\* is modelled as the document: an object with the fields "order" and
\* "model", the latter an object in key order.  A JSON value is a record
\* tagged by its type; Missing stands for an absent field.
Missing == [t |-> "missing"]
JInt(n) == [t |-> "int", v |-> n]
\* the number v + 0.5
JHalf(n) == [t |-> "float", v |-> n]
JStr(chars) == [t |-> "str", s |-> chars]
JNull == [t |-> "null"]
\* an object, its members in key order
JObj(items) == [t |-> "object", items |-> items]

Digits == <<"0", "1", "2", "3", "4", "5", "6", "7", "8", "9">>

DigitValue(ch) == (CHOOSE d \in 1..10 : Digits[d] = ch) - 1

IsDigit(ch) == \E d \in 1..10 : Digits[d] = ch

RECURSIVE Decimal(_, _)
Decimal(chars, acc) ==
    IF chars = <<>> THEN acc
    ELSE Decimal(Tail(chars), 10 * acc + DigitValue(Head(chars)))

\* faulty variant: a value int() rejects counts as 0
PyIntLenient(j) ==
    IF j.t = "int" THEN [ok |-> TRUE, v |-> j.v]
    ELSE IF j.t = "float" THEN [ok |-> TRUE, v |-> j.v]
    ELSE IF j.t = "str" /\ j.s # <<>> /\ \A k \in 1..Len(j.s) : IsDigit(j.s[k])
         THEN [ok |-> TRUE, v |-> Decimal(j.s, 0)]
    ELSE [ok |-> TRUE, v |-> 0]

\* int(v) for a JSON value: an int as it is, a float truncated, a string of
\* decimal digits parsed, any other string a ValueError, null a TypeError
PyInt(j) ==
    IF j.t = "int" THEN [ok |-> TRUE, v |-> j.v]
    ELSE IF j.t = "float" THEN [ok |-> TRUE, v |-> j.v]
    ELSE IF j.t = "str"
         THEN IF j.s # <<>> /\ \A k \in 1..Len(j.s) : IsDigit(j.s[k])
              THEN [ok |-> TRUE, v |-> Decimal(j.s, 0)]
              ELSE [ok |-> FALSE, err |-> "ValueError"]
    ELSE [ok |-> FALSE, err |-> "TypeError"]

\* d[key] = value on a dict: a new key goes last, a known key keeps its place
RECURSIVE IndexOfKey(_, _, _)
IndexOfKey(d, key, k) ==
    IF k > Len(d) THEN 0
    ELSE IF d[k].key = key THEN k
    ELSE IndexOfKey(d, key, k + 1)

DictPut(d, key, nexts) ==
    LET k == IndexOfKey(d, key, 1) IN
    IF k = 0 THEN Append(d, [key |-> key, nexts |-> nexts])
    ELSE [d EXCEPT ![k].nexts = nexts]

\* dict(nexts): the counts as JSON integers
RECURSIVE DictOf(_)
DictOf(nexts) ==
    IF nexts = <<>> THEN <<>>
    ELSE <<[w |-> Head(nexts).w, c |-> JInt(Head(nexts).c)]>> \o DictOf(Tail(nexts))

\* {"||".join(context): dict(nexts) for context, nexts in self.model.items()}
RECURSIVE SerialModel(_, _)
SerialModel(m, acc) ==
    IF m = <<>> THEN acc
    ELSE SerialModel(Tail(m), DictPut(acc, StrJoin(SEP, Head(m).ctx), DictOf(Head(m).nexts)))

\* serial = {"order": self.order, "model": {...}}
SaveDoc(ord, m) == [order |-> JInt(ord), model |-> JObj(SerialModel(m, <<>>))]

\* s.split("||"): the separators found scanning from the left, not overlapping
RECURSIVE SplitFrom(_, _, _, _)
SplitFrom(chars, p, cur, acc) ==
    IF p > Len(chars) THEN Append(acc, cur)
    ELSE IF p + 1 <= Len(chars) /\ SubSeq(chars, p, p + 1) = SEP
         THEN SplitFrom(chars, p + 2, <<>>, Append(acc, cur))
    ELSE SplitFrom(chars, p + 1, Append(cur, chars[p]), acc)

Split(chars) == SplitFrom(chars, 1, <<>>, <<>>)

\* {k: int(v) for k, v in nexts.items()}: the table, or the error of int()
RECURSIVE IntTable(_, _)
IntTable(nexts, acc) ==
    IF nexts = <<>> THEN [ok |-> TRUE, nexts |-> acc]
    ELSE LET n == PyInt(Head(nexts).c) IN
         IF ~n.ok THEN [ok |-> FALSE, err |-> n.err]
         ELSE IntTable(Tail(nexts), Append(acc, [w |-> Head(nexts).w, c |-> n.v]))

\* mc.model[context] = table
ModelPut(m, ctx, nexts) ==
    LET k == IndexOfCtx(m, ctx, 1) IN
    IF k = 0 THEN Append(m, [ctx |-> ctx, nexts |-> nexts])
    ELSE [m EXCEPT ![k].nexts = nexts]

\* for ctx_str, nexts in raw.items(): ...
RECURSIVE LoadLoop(_, _)
LoadLoop(raw, m) ==
    IF raw = <<>> THEN [ok |-> TRUE, model |-> m]
    ELSE LET t == IntTable(Head(raw).nexts, <<>>) IN
         IF ~t.ok THEN [ok |-> FALSE, err |-> t.err]
         ELSE LoadLoop(Tail(raw), ModelPut(m, Split(Head(raw).key), t.nexts))

\* data.get("order", 2)
DefaultOrder == 2

\* MarkovChain.load on the document: the MarkovChain built, or the exception
LoadDoc(doc) ==
    LET o == PyInt(IF doc.order = Missing THEN JInt(DefaultOrder) ELSE doc.order) IN
    IF ~o.ok THEN [status |-> "error", kind |-> o.err, src |-> doc]
    ELSE IF o.v < 1 THEN [status |-> "error", kind |-> "ValueError", src |-> doc]
    ELSE LET r == LoadLoop(IF doc.model = Missing THEN <<>> ELSE doc.model.items, <<>>) IN
         IF ~r.ok THEN [status |-> "error", kind |-> r.err, src |-> doc]
         ELSE [status |-> "ok", order |-> o.v, model |-> r.model, src |-> doc]

\* mc.save(path)
Save ==
    /\ pc = "idle"
    /\ file' = [exists |-> TRUE, doc |-> SaveDoc(order, model)]
    /\ tampers' = 0
    /\ UNCHANGED <<order, model, hist, pc, genVars, result, loaded>>

\* Values an edit of the file can leave where a count or the order was.
JunkCounts == { JStr(<<"x">>), JStr(<<"7">>), JHalf(1), JNull }

JunkOrders == { JStr(<<"x">>), JInt(0) }

CountEdits(doc) ==
    IF doc.model = Missing THEN {}
    ELSE UNION { UNION { { [doc EXCEPT !.model.items[k].nexts[j].c = v] : v \in JunkCounts }
                         : j \in 1..Len(doc.model.items[k].nexts) }
                 : k \in 1..Len(doc.model.items) }

Edits(doc) ==
    { [doc EXCEPT !.order = Missing], [doc EXCEPT !.model = Missing] }
      \cup { [doc EXCEPT !.order = v] : v \in JunkOrders }
      \cup CountEdits(doc)

\* The file at the model path is edited from outside the program.
Tamper ==
    /\ pc = "idle"
    /\ file.exists
    /\ tampers < MaxTamper
    /\ \E d \in Edits(file.doc) : file' = [file EXCEPT !.doc = d]
    /\ tampers' = tampers + 1
    /\ UNCHANGED <<order, model, hist, pc, genVars, result, loaded>>

\* MarkovChain.load(path), the file being there
Load ==
    /\ pc = "idle"
    /\ file.exists
    /\ loaded' = LoadDoc(file.doc)
    /\ pc' = "loaded"
    /\ UNCHANGED <<order, model, hist, genVars, result, file, tampers>>

\* the caller takes what load returned or raised
LoadReturn ==
    /\ pc = "loaded"
    /\ pc' = "idle"
    /\ loaded' = NoLoad
    /\ UNCHANGED <<order, model, hist, genVars, result, file, tampers>>

NextCodec ==
    \/ \E tokens \in TokenLists : Train(tokens, MaxTrainC)
    \/ Save
    \/ Tamper
    \/ Load
    \/ LoadReturn

SpecCodec == Init /\ [][NextCodec]_vars

\* ------------------------------------------------- SpecChoose: the draw
\* _choose_next applied to one table: every table of up to three distinct
\* words with counts in 0..MaxCount, under a context that is a key.
Words == Tokens \cup {STOP}

Tables ==
    { t \in UNION { [1..n -> [w : Words, c : 0..MaxCount]] : n \in 1..Cardinality(Words) } :
        \A a, b \in 1..Len(t) : a # b => t[a].w # t[b].w }

InitChoose ==
    /\ order = 1
    /\ \E t \in Tables : model = << [ctx |-> <<START>>, nexts |-> t] >>
    /\ hist = <<>>
    /\ pc = "choose"
    /\ context = <<START>>
    /\ out = <<>>
    /\ start = <<>>
    /\ max_words = 0
    /\ i = 0
    /\ draws = <<>>
    /\ pick = 0
    /\ prev = <<>>
    /\ result = NoText
    /\ loaded = NoLoad
    /\ file = NoFile
    /\ tampers = 0

\* next_word = self._choose_next(context)
Choose ==
    /\ pc = "choose"
    /\ \E r \in PickRange(model, context) :
         /\ draws' = <<ChooseNext(model, context, r)>>
         /\ pick' = r
    /\ prev' = context
    /\ pc' = "chosen"
    /\ UNCHANGED <<order, model, hist, context, out, start, max_words, i,
                   result, loaded, file, tampers>>

ChooseAgain ==
    /\ pc = "chosen"
    /\ pc' = "choose"
    /\ draws' = <<>>
    /\ pick' = 0
    /\ prev' = <<>>
    /\ UNCHANGED <<order, model, hist, context, out, start, max_words, i,
                   result, loaded, file, tampers>>

NextChoose == Choose \/ ChooseAgain

SpecChoose == InitChoose /\ [][NextChoose]_vars

\* ===================================================================
\* Properties
\* ===================================================================
RECURSIVE SumCounts(_)
SumCounts(m) ==
    IF m = <<>> THEN 0 ELSE Total(Head(m).nexts) + SumCounts(Tail(m))

\* model[ctx][w], 0 where there is no such entry
Count(m, ctx, w) ==
    LET k == IndexOfCtx(m, ctx, 1) IN
    IF k = 0 THEN 0
    ELSE LET j == IndexOfWord(m[k].nexts, w, 1) IN
         IF j = 0 THEN 0 ELSE m[k].nexts[j].c

Pairs(m) ==
    UNION { { <<m[k].ctx, m[k].nexts[j].w>> : j \in 1..Len(m[k].nexts) } : k \in 1..Len(m) }

Contexts(m) == { m[k].ctx : k \in 1..Len(m) }

\* a dict has no key twice
WellFormed(m) ==
    /\ \A a, b \in 1..Len(m) : a # b => m[a].ctx # m[b].ctx
    /\ \A k \in 1..Len(m) :
         \A a, b \in 1..Len(m[k].nexts) : a # b => m[k].nexts[a].w # m[k].nexts[b].w

\* positions of the padded sequence at which ctx is followed by w
Occurrences(ord, T, ctx, w) ==
    LET P == [k \in 1..ord |-> START] \o T \o <<STOP>> IN
    Cardinality({ p \in 0..Len(T) :
                    /\ SubSeq(P, p + 1, p + ord) = ctx
                    /\ P[p + ord + 1] = w })

\* what each train call of the history enters into a fresh model
FreshModels(h, ord) == [k \in 1..Len(h) |-> TrainModel(<<>>, ord, h[k])]

RECURSIVE SumOver(_, _, _)
SumOver(fresh, ctx, w) ==
    IF fresh = <<>> THEN 0
    ELSE Count(Head(fresh), ctx, w) + SumOver(Tail(fresh), ctx, w)

\* C1: train(T) on an empty model, len(T) >= Order, makes exactly len(T)+1
\* increments: for each position 0..len(T) of the padded sequence the count
\* of (window at that position -> token after the window) goes up by one,
\* the last one being the transition to STOP, and nothing else is entered.
C1_TrainIncrements ==
    (Len(hist) = 1 /\ Len(hist[1]) >= order) =>
        LET T == hist[1]
            P == [k \in 1..order |-> START] \o T \o <<STOP>>
        IN  /\ WellFormed(model)
            /\ SumCounts(model) = Len(T) + 1
            /\ \A p \in 0..Len(T) :
                 Count(model, SubSeq(P, p + 1, p + order), P[p + order + 1])
                   = Occurrences(order, T, SubSeq(P, p + 1, p + order), P[p + order + 1])
            /\ \A pr \in Pairs(model) :
                 /\ Len(pr[1]) = order
                 /\ Count(model, pr[1], pr[2]) = Occurrences(order, T, pr[1], pr[2])
                 /\ Count(model, pr[1], pr[2]) >= 1
            /\ Count(model, SubSeq(P, Len(T) + 1, Len(T) + order), STOP) = 1
            /\ LET t == ModelGet(model, SubSeq(P, Len(T) + 1, Len(T) + order)) IN
                 t[Len(t)].w = STOP

C1_Witness ==
    /\ order = 2
    /\ Len(hist) = 1
    /\ Len(hist[1]) = 2
    /\ hist[1][1] # hist[1][2]
    /\ Len(model) = 3

\* C4: after any train and generate calls the count of every pair is the sum
\* over the train calls made of what each call enters into a fresh model of
\* the same Order; nothing is replaced or removed, generate changes nothing.
C4_TrainAdditive ==
    LET fresh == FreshModels(hist, order) IN
    /\ WellFormed(model)
    /\ Contexts(model) = UNION { Contexts(fresh[k]) : k \in 1..Len(fresh) }
    /\ Pairs(model) = UNION { Pairs(fresh[k]) : k \in 1..Len(fresh) }
    /\ \A pr \in Pairs(model) : Count(model, pr[1], pr[2]) = SumOver(fresh, pr[1], pr[2])

C4_Witness ==
    /\ Len(hist) = 2
    /\ Len(hist[1]) >= order
    /\ Len(hist[2]) >= order
    /\ \E pr \in Pairs(model) : Count(model, pr[1], pr[2]) = 2
    /\ pc = "return"
    /\ draws # <<>>

\* C5: train(tokens) with len(tokens) < Order changes nothing in the model (a
\* fresh model stays empty) and ends as any other call; with len(tokens) =
\* Order it does add entries, len(tokens)+1 increments.
C5_ShortTrainNoOp ==
    [][ (hist' # hist) =>
          LET T == hist'[Len(hist')] IN
          /\ pc' = "idle"
          /\ (Len(T) < order => model' = model)
          /\ (Len(T) = order =>
                /\ model' # model
                /\ SumCounts(model') = SumCounts(model) + Len(T) + 1) ]_vars

C5_Witness ==
    /\ order = 2
    /\ Len(hist) = 1
    /\ Len(hist[1]) = 1
    /\ model = <<>>

\* C3: generate(max_words) ends after at most max_words sampling steps and
\* appends at most max_words tokens, whatever is drawn.
C3_GenerateBounded ==
    (pc \in {"loop", "return"}) =>
        /\ i <= max_words
        /\ Len(draws) <= max_words
        /\ Len(out) <= Len(start) + max_words
        /\ Len(out) = Len(start) + i

C3_Witness ==
    /\ pc = "return"
    /\ max_words = 2
    /\ i = 2
    /\ Len(draws) = 2
    /\ draws[2] # STOP

\* C7: drawing STOP is terminal: the step that draws it appends nothing and
\* no step follows, so nothing generate appends is STOP and the output is the
\* start tokens followed by the tokens drawn before the first STOP.
C7_StopTerminal ==
    (pc \in {"loop", "return"}) =>
        /\ \A k \in 1..Len(draws) :
             draws[k] = STOP => (k = Len(draws) /\ pc = "return")
        /\ \A k \in (Len(start) + 1)..Len(out) : out[k] # STOP
        /\ out = start \o SelectSeq(draws, LAMBDA w : w # STOP)
        /\ (pc = "return" => result = StrJoin(SPACE, start \o SelectSeq(draws, LAMBDA w : w # STOP)))

C7_Witness ==
    /\ pc = "return"
    /\ Len(draws) = 2
    /\ draws[2] = STOP
    /\ max_words = 2
    /\ Len(out) = Len(start) + 1

Unseen == IndexOfCtx(model, prev, 1) = 0

Sampled == pc \in {"loop", "return"} /\ draws # <<>>

NextTokens(m) ==
    UNION { { m[k].nexts[j].w : j \in 1..Len(m[k].nexts) } : k \in 1..Len(m) }

\* C9 as stated: for an unseen context the fallback yields STOP only when the
\* whole model is empty, and otherwise a token among the next-tokens observed.
C9_StopOnlyIfEmpty ==
    (Sampled /\ Unseen) =>
        /\ (draws[Len(draws)] = STOP => model = <<>>)
        /\ (model # <<>> => draws[Len(draws)] \in NextTokens(model))

\* C9 amended: for an unseen context the fallback yields STOP without a draw
\* when no table holds a next-token; otherwise it yields the entry of the
\* flattened per-context tables at the drawn index, which is STOP itself where
\* that entry is a recorded transition to STOP.
C9_Fallback ==
    (Sampled /\ Unseen) =>
        IF NextTokens(model) = {}
        THEN draws[Len(draws)] = STOP
        ELSE /\ pick \in 0..(Len(AllChoices(model)) - 1)
             /\ draws[Len(draws)] = AllChoices(model)[pick + 1]
             /\ draws[Len(draws)] \in NextTokens(model)

C9_Witness ==
    /\ Sampled
    /\ Unseen
    /\ model # <<>>
    /\ draws[Len(draws)] = STOP
    /\ AllChoices(model)[1] # STOP

\* C10: before every sampling step the context has length Order and is the
\* last Order tokens of (Order copies of START, then the output buffer), the
\* output buffer starting as the start tokens; Order = 1 included.
C10_SlidingWindow ==
    (pc = "loop") =>
        LET full == [k \in 1..order |-> START] \o out IN
        /\ Len(context) = order
        /\ context = SubSeq(full, Len(full) - order + 1, Len(full))
        /\ (i = 0 => out = start)
        /\ SubSeq(out, 1, Len(start)) = start

C10_Witness ==
    /\ pc = "loop"
    /\ order = 1
    /\ Len(start) = 2
    /\ i = 1
    /\ LoopGuard(i, max_words)

\* sum of the first j counts of a table
RECURSIVE Cum(_, _)
Cum(t, j) == IF j = 0 THEN 0 ELSE t[j].c + Cum(t, j - 1)

\* C8: for a context with a non-empty table of total N, the draw maps each r
\* in 0..N-1 to the token whose cumulative-count interval (in iteration
\* order) contains r: count(w) of the N values select w, none selects a token
\* outside the table.
C8_WeightedDraw ==
    (pc \in {"choose", "chosen"}) =>
        LET t == ModelGet(model, context)
            N == Cum(t, Len(t))
        IN  /\ \A r \in 0..(N - 1) :
                 \E j \in 1..Len(t) :
                    /\ ChooseNext(model, context, r) = t[j].w
                    /\ Cum(t, j - 1) <= r
                    /\ r < Cum(t, j)
            /\ \A j \in 1..Len(t) :
                 Cardinality({ r \in 0..(N - 1) : ChooseNext(model, context, r) = t[j].w }) = t[j].c
            /\ (pc = "chosen" =>
                  \E j \in 1..Len(t) :
                     /\ draws[1] = t[j].w
                     /\ Cum(t, j - 1) <= pick
                     /\ pick < Cum(t, j))

C8_Witness ==
    /\ pc = "chosen"
    /\ Len(model[1].nexts) = 2
    /\ model[1].nexts[1].c = 2
    /\ model[1].nexts[2].c = 1
    /\ pick = 2
    /\ draws[1] = model[1].nexts[2].w

HasSep(tok) == \E p \in 1..(Len(tok) - 1) : SubSeq(tok, p, p + 1) = SEP

TokensOf(m) ==
    UNION { { m[k].ctx[p] : p \in 1..Len(m[k].ctx) } : k \in 1..Len(m) } \cup NextTokens(m)

TableOf(m, ctx) ==
    LET t == ModelGet(m, ctx) IN { <<t[j].w, t[j].c>> : j \in 1..Len(t) }

\* C2: for a valid model in which no token contains "||", load(save(M)) has
\* the Order of M and the same mapping from contexts to next-token counts.
C2_RoundTrip ==
    ( /\ pc = "loaded"
      /\ loaded.src = SaveDoc(order, model)
      /\ \A tok \in TokensOf(model) : ~HasSep(tok) ) =>
        /\ loaded.status = "ok"
        /\ loaded.order = order
        /\ Contexts(loaded.model) = Contexts(model)
        /\ \A ctx \in Contexts(model) : TableOf(loaded.model, ctx) = TableOf(model, ctx)

Rejected(j) == (j.t = "str" /\ ~(j.s # <<>> /\ \A k \in 1..Len(j.s) : IsDigit(j.s[k]))) \/ j.t = "null"

CountsOf(doc) ==
    IF doc.model = Missing THEN {}
    ELSE UNION { { doc.model.items[k].nexts[j].c : j \in 1..Len(doc.model.items[k].nexts) }
                 : k \in 1..Len(doc.model.items) }

\* C6 as stated: load of a document without the order, without the model
\* mapping, or with a count that is not an integer ends in an error.
C6_CorruptIsError ==
    ( /\ pc = "loaded"
      /\ \/ loaded.src.order = Missing
         \/ loaded.src.model = Missing
         \/ \E c \in CountsOf(loaded.src) : c.t # "int" ) =>
        loaded.status = "error"

OrderFine(doc) ==
    \/ doc.order = Missing
    \/ doc.order.t = "int" /\ doc.order.v >= 1

\* C6 amended: load ends in an error, and returns no model, when a stored
\* count is a value int() rejects (a string that is not a number, null).
\* A missing order is no error: the Order is 2.  A missing model mapping is
\* no error: the model is empty.  A fractional count is no error: it is
\* truncated.
C6_LoadErrors ==
    (pc = "loaded") =>
        LET doc == loaded.src IN
        /\ ((\E c \in CountsOf(doc) : Rejected(c)) => loaded.status = "error")
        /\ ((OrderFine(doc) /\ \A c \in CountsOf(doc) : ~Rejected(c)) =>
              /\ loaded.status = "ok"
              /\ (doc.order = Missing => loaded.order = 2)
              /\ (doc.model = Missing => loaded.model = <<>>)
              /\ \A k \in 1..Len(loaded.model) : \A j \in 1..Len(loaded.model[k].nexts) :
                   loaded.model[k].nexts[j].c \in Int)

C6_Witness ==
    /\ pc = "loaded"
    /\ loaded.status = "error"
    /\ loaded.src.order = JInt(order)
    /\ \E c \in CountsOf(loaded.src) : c = JStr(<<"x">>)

====
